---- MODULE Spec2Model ----
(***************************************************************************)
(* gh-daily-update: the digest pipeline (create_status_reports and the     *)
(* functions it calls) and the membership-refresh handler.                 *)
(*                                                                         *)
(* Text is modelled by its length wherever only the length is used         *)
(* (titles, label strings) and by the string itself where its identity or  *)
(* order is used (logins, assignee strings, links).  A rendered digest     *)
(* body is the sequence of the blocks appended to it, each block carrying  *)
(* the link it renders and the number of characters it contributes.        *)
(***************************************************************************)
EXTENDS Integers, Sequences, FiniteSets, TLC

VARIABLES
    pc,               \* position of create_status_reports
    issues,           \* the accumulated search results
    total_count,      \* get_issues: total_count reported by the first page
    page,             \* get_issues: params["page"], the number of requests issued
    cap,              \* get_issues: the loop bound
    fetch_failed,     \* a request of get_issues failed during this run
    i,                \* index of the clean-up pass over issues
    lookups,          \* number of review requests issued by pr_is_approved
    filtered_issues,  \* repo id -> surviving classified records
    status,           \* the delivery batch
    j,                \* index of the delivery loop
    posts,            \* POST attempts, in order
    h_pc,             \* position of the membership-refresh handler
    h_i,              \* index of its loop over repos
    table,            \* the registry table: repo id -> members, updated_members_at
    resp,             \* the handler's local resp
    attempts          \* repo ids whose refresh the handler attempted, in order

vars == <<pc, issues, total_count, page, cap, fetch_failed, i, lookups,
          filtered_issues, status, j, posts, h_pc, h_i, table, resp, attempts>>

pipeline_vars == <<pc, issues, total_count, page, cap, fetch_failed, i, lookups,
                   filtered_issues, status, j, posts>>

refresh_vars == <<h_pc, h_i, table, resp, attempts>>

(***************************************************************************)
(* Bounds of the model.                                                    *)
(***************************************************************************)
\* records of interest the search returns over one run
MaxIssues == 3
\* requests one run of get_issues may issue in the model
MaxPages == 20

(***************************************************************************)
(* Program constants.                                                      *)
(***************************************************************************)
per_page == 100
SafetyCeiling == 900
MSG_MAX_LENGTH == 40000
TitleMaxLength == 50
TIME_INTERVAL == 4
\* characters of a pull-request block that do not depend on the record
BlockFixedLen == 44
\* the run date, as a day number
Today == 30

Max(a, b) == IF a >= b THEN a ELSE b
Min(a, b) == IF a <= b THEN a ELSE b
Last(s) == s[Len(s)]
Range(s) == {s[k] : k \in 1..Len(s)}

(***************************************************************************)
(* The registry snapshot read at start-up.                                 *)
(***************************************************************************)
repos == <<
    [id |-> "amplify-cli", repo |-> "amplify-cli", team |-> "amplify-cli",
     webhook |-> "hook-cli", members |-> {"alice"}, name |-> "Amplify CLI"],
    [id |-> "amplify-js", repo |-> "amplify-js", team |-> "amplify-js",
     webhook |-> "hook-js", members |-> {"alice", "bob"}, name |-> "Amplify JS"] >>

repo_ids == [k \in 1..Len(repos) |-> repos[k].repo]
RepoIdSet == Range(repo_ids)
members_by_repo == [r \in RepoIdSet |-> (CHOOSE x \in Range(repos) : x.repo = r).members]
webhook_by_repo == [r \in RepoIdSet |-> (CHOOSE x \in Range(repos) : x.repo = r).webhook]
name_by_repo == [r \in RepoIdSet |-> (CHOOSE x \in Range(repos) : x.repo = r).name]

(***************************************************************************)
(* The hosting service: the records a search can return and the review     *)
(* list of each pull request.  A URL is the sequence of its path segments. *)
(***************************************************************************)
Raw(n, repo, login, pr, title, assignees, assignee, comments, created, updated, labels) ==
    [url |-> <<"repos", "aws-amplify", repo, "issues", n>>,
     repository_url |-> <<"repos", "aws-amplify", repo>>,
     html_url |-> repo \o "/" \o n,
     user |-> [login |-> login],
     pull_request |-> pr,
     title |-> title,
     assignees |-> assignees,
     assignee |-> assignee,
     comments |-> comments,
     created_at |-> created,
     updated_at |-> updated,
     labels |-> labels]

Pool == {
    \* an approved pull request of an outside contributor
    Raw("1", "amplify-cli", "bob", TRUE, 20, <<"carol">>, "carol", 0, 10, 29, <<9000>>),
    \* open pull requests of outside contributors, with long label strings
    Raw("2", "amplify-cli", "bob", TRUE, 30, <<>>, "", 1, 30, 30, <<24000>>),
    Raw("3", "amplify-cli", "dave", TRUE, 80, <<"carol", "dan">>, "carol", 5, 2, 20, <<19000, 3>>),
    Raw("4", "amplify-cli", "dave", TRUE, 12, <<>>, "", 12, 29, 30, <<>>),
    \* an issue that is no pull request
    Raw("5", "amplify-cli", "dave", FALSE, 40, <<"carol">>, "carol", 0, 25, 25, <<7>>),
    \* pull requests in the second repository: one by an outsider, one by a member
    Raw("6", "amplify-js", "dave", TRUE, 51, <<>>, "carol", 3, 1, 29, <<4, 6>>),
    Raw("7", "amplify-js", "bob", TRUE, 10, <<>>, "", 0, 28, 28, <<>>),
    \* a pull request in a repository that is not registered
    Raw("8", "amplify-ui", "dave", TRUE, 10, <<>>, "", 0, 28, 28, <<>>) }

\* the review list the reviews endpoint returns for pull request id of repo
ServerReviews(repo, id) ==
    CASE repo = "amplify-cli" /\ id = "1" ->
             << [state |-> "COMMENTED"], [state |-> "APPROVED"] >>
      [] repo = "amplify-cli" /\ id = "3" -> << [state |-> "CHANGES_REQUESTED"] >>
      [] repo = "amplify-js" /\ id = "6" -> << [state |-> "COMMENTED"] >>
      [] OTHER -> << >>

(***************************************************************************)
(* The pure functions of the pipeline.                                     *)
(***************************************************************************)
\* number of decimal digits of a count
Digits(n) == IF n < 10 THEN 1 ELSE IF n < 100 THEN 2 ELSE IF n < 1000 THEN 3 ELSE 4

\* length of days_ago(count): "today", "1 day ago", "N days ago"
DaysAgoLen(count) ==
    IF count = 0 THEN Len("today")
    ELSE LET suffix == IF count = 1 THEN "day" ELSE "days"
         IN  Digits(count) + 1 + Len(suffix) + Len(" ago")

PrIsApprovedFirstOnly(reviews) ==
    reviews # << >> /\ reviews[1].state = "APPROVED"

\* pr_is_approved, given the review list the request returned
PrIsApproved(reviews) ==
    \E k \in 1..Len(reviews) : reviews[k].state = "APPROVED"

issue_repo(repository_url) == Last(repository_url)

pr_id(pr_link) == Last(pr_link)

\* truncate_item on a text of the given length: the length of the result
truncate_item(item, max_length) ==
    IF item > max_length THEN (max_length - 2) + Len("..") ELSE item

RECURSIVE Join(_, _)
Join(sep, strs) ==
    IF Len(strs) = 0 THEN ""
    ELSE IF Len(strs) = 1 THEN strs[1]
    ELSE strs[1] \o sep \o Join(sep, Tail(strs))

get_issue_assignee(issue) ==
    IF issue.assignees # << >> THEN Join(",", issue.assignees)
    ELSE IF issue.assignee # "" THEN issue.assignee
    ELSE "unassigned"

days_since(issue_date) == Today - issue_date

RECURSIVE SumSeq(_)
SumSeq(s) == IF s = << >> THEN 0 ELSE s[1] + SumSeq(Tail(s))

\* get_issue_labels: the length of the ", "-joined label names
get_issue_labels(issue) ==
    IF issue.labels # << >>
    THEN SumSeq(issue.labels) + Len(", ") * (Len(issue.labels) - 1)
    ELSE 0

is_pr(issue) == issue.pull_request

\* the record format_issue returns for a record that is not dropped
Classified(issue, is_approved) ==
    [repo |-> issue_repo(issue.repository_url),
     title |-> truncate_item(issue.title, TitleMaxLength),
     is_pr |-> is_pr(issue),
     is_approved |-> is_approved,
     assignee |-> get_issue_assignee(issue),
     comments |-> issue.comments,
     open_since |-> days_since(issue.created_at),
     last_updated |-> days_since(issue.updated_at),
     labels |-> get_issue_labels(issue),
     link |-> issue.html_url]

\* format_issue, given the answer of pr_is_approved: the empty sequence
\* stands for the empty dict, a one-element sequence for a classified record
format_issue(issue, is_approved) ==
    IF is_pr(issue) /\ is_approved THEN << >>
    ELSE << Classified(issue, is_approved) >>

\* pr_alerts: the number of glyphs of the alert string
pr_alerts(issue) ==
    LET time == IF issue.last_updated > 2 \/ issue.open_since < 1 THEN 1 ELSE 0
        action == IF issue.last_updated < 2 /\ issue.open_since > 7 THEN 1 ELSE 0
        unassigned == IF issue.assignee = "unassigned" THEN 1 ELSE 0
        comments == IF issue.comments < 2 THEN 1 ELSE 0
    IN  time + unassigned + comments + action

\* the block format_by_repo renders for a pull request
PrBlock(issue) ==
    LET labels == IF issue.labels # 0 THEN issue.labels + Len("()") ELSE 0
    IN  [link |-> issue.link,
         len |-> BlockFixedLen + pr_alerts(issue) + Len(issue.assignee) + issue.title
                 + Digits(issue.comments) + DaysAgoLen(issue.open_since)
                 + DaysAgoLen(issue.last_updated) + labels + Len(issue.link)]

RECURSIVE TextLen(_)
TextLen(txt) == IF txt = << >> THEN 0 ELSE txt[1].len + TextLen(Tail(txt))

\* the assignee strings of the model in ascending string order
AssigneeOrder == << "carol", "carol,dan", "unassigned" >>
AssigneeRank(a) == CHOOSE k \in 1..Len(AssigneeOrder) : AssigneeOrder[k] = a

\* (assignee, is_pr) of a is less than or equal to that of b
KeyLeq(a, b) ==
    \/ AssigneeRank(a.assignee) < AssigneeRank(b.assignee)
    \/ /\ a.assignee = b.assignee
       /\ (a.is_pr => b.is_pr)

RECURSIVE InsertSorted(_, _)
InsertSorted(s, x) ==
    IF s = << >> THEN << x >>
    ELSE IF KeyLeq(Last(s), x) THEN Append(s, x)
    ELSE Append(InsertSorted(SubSeq(s, 1, Len(s) - 1), x), Last(s))

RECURSIVE SortedByAssignee(_)
\* sorted(issues, key=(assignee, is_pr)): stable
SortedByAssignee(s) ==
    IF s = << >> THEN << >>
    ELSE InsertSorted(SortedByAssignee(SubSeq(s, 1, Len(s) - 1)), Last(s))

RECURSIVE AppendBlocksContinue(_, _, _)
AppendBlocksContinue(sorted, k, prs_txt) ==
    IF k > Len(sorted) THEN prs_txt
    ELSE IF sorted[k].is_pr
         THEN IF PrBlock(sorted[k]).len + TextLen(prs_txt) > MSG_MAX_LENGTH
              THEN AppendBlocksContinue(sorted, k + 1, prs_txt)
              ELSE AppendBlocksContinue(sorted, k + 1, Append(prs_txt, PrBlock(sorted[k])))
         ELSE AppendBlocksContinue(sorted, k + 1, prs_txt)

RECURSIVE AppendBlocks(_, _, _)
\* the loop of format_by_repo from position k on, prs_txt being the text so far
AppendBlocks(sorted, k, prs_txt) ==
    IF k > Len(sorted) THEN prs_txt
    ELSE IF sorted[k].is_pr
         THEN LET pr == PrBlock(sorted[k])
                  status_length == TextLen(prs_txt)
              IN  IF pr.len + status_length > MSG_MAX_LENGTH
                  THEN prs_txt
                  ELSE AppendBlocks(sorted, k + 1, Append(prs_txt, pr))
         ELSE AppendBlocks(sorted, k + 1, prs_txt)

format_by_repo(repo_issues) ==
    [prs |-> AppendBlocks(SortedByAssignee(repo_issues), 1, << >>)]

(***************************************************************************)
(* get_issues.  The accumulated list is held as the records of interest,   *)
(* in the order received, and the number of the other records received:    *)
(* those belong to repositories outside the registry, which the clean-up   *)
(* pass skips without effect.                                              *)
(***************************************************************************)
\* total_count values the first page may report
TotalCounts == {50, 150, 950}

IssueCount(list) == Len(list.recs) + list.others

SeqsUpTo(pool, n) == UNION {[1..k -> pool] : k \in 0..n}

\* the "items" of one response: a short page of records of interest
\* (possibly empty), or a full page of other records
Pages(pool, room) ==
    {[recs |-> r, others |-> 0] : r \in SeqsUpTo(pool, room)}
    \cup {[recs |-> << >>, others |-> per_page]}

Extend(list, items) ==
    [recs |-> list.recs \o items.recs, others |-> list.others + items.others]

NoIssues == [recs |-> << >>, others |-> 0]

\* where create_status_reports goes on with the list get_issues returned
AfterFetch(list) == IF list.recs = << >> THEN "build" ELSE "filter"

\* get_issues is running, or has ended in an exception
InGetIssues(at) == at \in {"start", "paging", "exited"}

\* the locals of get_issues, which end with its return
Locals(at, total, pg, bound) ==
    IF InGetIssues(at) THEN <<total, pg, bound>> ELSE <<0, 0, 0>>

OnFetchErrorContinue(list) == AfterFetch(list)

\* create_status_reports when get_issues raised: log and sys.exit()
OnFetchError(list) == "exited"

\* cap = max(total_count, 900)
LoopBound(total) == Max(total, SafetyCeiling)

BreakOnEmptyNever(items) == FALSE

\* the else branch of `if req.json()["items"]`
BreakOnEmpty(items) == IssueCount(items) = 0

\* the first request and the test total_count > per_page
FirstRequestOf(pool) ==
    /\ pc = "start"
    /\ \/ /\ fetch_failed' = TRUE
          /\ pc' = OnFetchError(issues)
          /\ total_count' = Locals(pc', total_count, 1, cap)[1]
          /\ page' = Locals(pc', total_count, 1, cap)[2]
          /\ cap' = Locals(pc', total_count, 1, cap)[3]
          /\ UNCHANGED issues
       \/ \E total \in TotalCounts, items \in Pages(pool, MaxIssues) :
             /\ issues' = items
             /\ pc' = IF total > per_page /\ IssueCount(items) < LoopBound(total)
                      THEN "paging" ELSE AfterFetch(items)
             /\ LET bound == IF total > per_page THEN LoopBound(total) ELSE cap
                IN  /\ total_count' = Locals(pc', total, 1, bound)[1]
                    /\ page' = Locals(pc', total, 1, bound)[2]
                    /\ cap' = Locals(pc', total, 1, bound)[3]
             /\ UNCHANGED fetch_failed
    /\ UNCHANGED <<i, lookups, filtered_issues, status, j, posts>>
    /\ UNCHANGED refresh_vars

\* one iteration of `while len(issues) < cap`, the next test of the loop included
NextPageOf(pool) ==
    /\ pc = "paging"
    /\ page < MaxPages
    /\ \/ /\ fetch_failed' = TRUE
          /\ pc' = OnFetchError(issues)
          /\ UNCHANGED issues
       \/ \E items \in Pages(pool, MaxIssues - Len(issues.recs)) :
             /\ IF BreakOnEmpty(items)
                THEN /\ issues' = issues
                     /\ pc' = AfterFetch(issues)
                ELSE /\ issues' = Extend(issues, items)
                     /\ pc' = IF IssueCount(issues') < cap THEN "paging"
                              ELSE AfterFetch(issues')
             /\ UNCHANGED fetch_failed
    /\ total_count' = Locals(pc', total_count, page + 1, cap)[1]
    /\ page' = Locals(pc', total_count, page + 1, cap)[2]
    /\ cap' = Locals(pc', total_count, page + 1, cap)[3]
    /\ UNCHANGED <<i, lookups, filtered_issues, status, j, posts>>
    /\ UNCHANGED refresh_vars

\* get_issues against a search that returns the records of Pool
FirstRequest == FirstRequestOf(Pool)

NextPage == NextPageOf(Pool)

\* get_issues against a search that returns two of them only
FetchPool == {r \in Pool : Last(r.url) \in {"2", "8"}}

FetchFirst == FirstRequestOf(FetchPool)

FetchPage == NextPageOf(FetchPool)

(***************************************************************************)
(* create_status_reports after the fetch.                                  *)
(***************************************************************************)
SurvivesAnyAuthor(issue) ==
    issue_repo(issue.repository_url) \in RepoIdSet

\* the test of the clean-up pass
Survives(issue) ==
    LET repo == issue_repo(issue.repository_url)
        author == issue.user.login
    IN  repo \in RepoIdSet /\ author \notin members_by_repo[repo]

\* one iteration of `for issue in issues` over the records of interest
FilterStep ==
    /\ pc = "filter"
    /\ LET issue == issues.recs[i]
           repo == issue_repo(issue.repository_url)
           id == pr_id(issue.url)
           next_pc == IF i + 1 > Len(issues.recs) THEN "build" ELSE "filter"
       IN  IF Survives(issue)
           THEN IF is_pr(issue)
                THEN /\ lookups' = lookups + 1
                     /\ \/ /\ pc' = "crashed"
                           /\ UNCHANGED <<i, filtered_issues>>
                        \/ LET formatted_issue ==
                                   format_issue(issue, PrIsApproved(ServerReviews(repo, id)))
                           IN  /\ filtered_issues' =
                                      [filtered_issues EXCEPT ![repo] = @ \o formatted_issue]
                               /\ i' = i + 1
                               /\ pc' = next_pc
                ELSE /\ filtered_issues' =
                            [filtered_issues EXCEPT ![repo] = @ \o format_issue(issue, FALSE)]
                     /\ i' = i + 1
                     /\ pc' = next_pc
                     /\ UNCHANGED lookups
           ELSE /\ i' = i + 1
                /\ pc' = next_pc
                /\ UNCHANGED <<lookups, filtered_issues>>
    /\ UNCHANGED <<issues, total_count, page, cap, fetch_failed, status, j, posts>>
    /\ UNCHANGED refresh_vars

FILTER_LABELS == "feature-request, enhancement, bug, pending-close-response-required"

meta == [interval |-> TIME_INTERVAL, filters |-> FILTER_LABELS, date |-> Today]

ReportableAlways(repo_issues) == TRUE

\* `if issues:` in the loop that builds the batch
Reportable(repo_issues) == repo_issues # << >>

RECURSIVE BuildStatus(_, _)
\* the loop `for repo_id in repo_ids` from position k on
BuildStatus(k, filtered) ==
    IF k > Len(repo_ids) THEN << >>
    ELSE LET repo_id == repo_ids[k]
             repo_issues == filtered[repo_id]
             item == [repo |-> name_by_repo[repo_id],
                      webhook |-> webhook_by_repo[repo_id],
                      interval |-> meta.interval,
                      filters |-> meta.filters,
                      date |-> meta.date,
                      prs |-> format_by_repo(repo_issues).prs]
         IN  (IF Reportable(repo_issues) THEN << item >> ELSE << >>)
             \o BuildStatus(k + 1, filtered)

Build ==
    /\ pc = "build"
    /\ status' = BuildStatus(1, filtered_issues)
    /\ j' = 1
    /\ pc' = IF status' = << >> THEN "done" ELSE "deliver"
    /\ UNCHANGED <<issues, total_count, page, cap, fetch_failed, i, lookups,
                   filtered_issues, posts>>
    /\ UNCHANGED refresh_vars

PostOutcomes == {"2xx", "non2xx", "raised"}

AfterPostStopOnError(outcome, k, n) ==
    IF outcome = "raised" \/ k + 1 > n THEN "done" ELSE "deliver"

\* the delivery loop after the attempt for item k of n: `continue` on an exception
AfterPost(outcome, k, n) ==
    IF k + 1 > n THEN "done" ELSE "deliver"

\* one iteration of `for item in status`
Deliver ==
    /\ pc = "deliver"
    /\ \E outcome \in PostOutcomes :
          /\ posts' = Append(posts, [url |-> status[j].webhook, json |-> status[j],
                                     outcome |-> outcome])
          /\ pc' = AfterPost(outcome, j, Len(status))
    /\ j' = j + 1
    /\ UNCHANGED <<issues, total_count, page, cap, fetch_failed, i, lookups,
                   filtered_issues, status>>
    /\ UNCHANGED refresh_vars

(***************************************************************************)
(* The membership-refresh handler.                                         *)
(***************************************************************************)
team_repos == <<
    [id |-> "amplify-cli", team |-> "amplify-cli"],
    [id |-> "amplify-android", team |-> "amplify-native"],
    [id |-> "amplify-ios", team |-> "amplify-native"] >>

\* member lists a team request may return
MemberLists == { << >>, <<"alice">>, <<"alice", "bob">> }

\* get_team_members: the empty sequence stands for None
TeamInfos ==
    {<< >>} \cup {<< [members |-> m, updated_members_at |-> "now"] >> : m \in MemberLists}

\* one iteration of `for repo in repos`, the logging of resp included
HandlerStep ==
    /\ h_pc = "loop"
    /\ \E fetch \in {"raised", "returned"}, team_info \in TeamInfos,
          write \in {"raised", "updated"} :
          LET updated == fetch = "returned" /\ team_info # << >> /\ write = "updated"
              repo == team_repos[h_i]
          IN  /\ table' = IF updated
                          THEN [table EXCEPT ![repo.id] = team_info[1]]
                          ELSE table
              /\ resp' = IF updated THEN << [Attributes |-> team_info[1]] >> ELSE resp
              /\ attempts' = Append(attempts, repo.id)
              /\ IF resp' = << >>
                 THEN /\ h_pc' = "raised"
                      /\ h_i' = h_i
                 ELSE /\ h_i' = h_i + 1
                      /\ h_pc' = IF h_i + 1 > Len(team_repos) THEN "done" ELSE "loop"
    /\ UNCHANGED pipeline_vars

(***************************************************************************)
(* Specifications.                                                         *)
(***************************************************************************)
PipelineInit ==
    /\ pc = "start"
    /\ issues = NoIssues
    /\ total_count = 0
    /\ page = 0
    /\ cap = 0
    /\ fetch_failed = FALSE
    /\ i = 1
    /\ lookups = 0
    /\ filtered_issues = [r \in RepoIdSet |-> << >>]
    /\ status = << >>
    /\ j = 1
    /\ posts = << >>

TeamRepoIds == {team_repos[k].id : k \in 1..Len(team_repos)}

HandlerInit ==
    /\ h_pc = "loop"
    /\ h_i = 1
    /\ resp = << >>
    /\ attempts = << >>

Init ==
    /\ PipelineInit
    /\ HandlerInit
    /\ table = [r \in TeamRepoIds |-> [members |-> << >>, updated_members_at |-> "old"]]

Next == FirstRequest \/ NextPage \/ FilterStep \/ Build \/ Deliver

\* one run of create_status_reports
Spec == Init /\ [][Next]_vars

FetchNext == FetchFirst \/ FetchPage

\* get_issues alone; every request it issues is answered
FetchSpec == Init /\ [][FetchNext]_vars /\ WF_vars(FetchNext)

RefreshInit ==
    /\ PipelineInit
    /\ HandlerInit
    /\ table \in [TeamRepoIds -> {[members |-> m, updated_members_at |-> "old"] :
                                    m \in MemberLists}]

\* one run of the membership-refresh handler
RefreshSpec == RefreshInit /\ [][HandlerStep]_vars

(***************************************************************************)
(* Properties.                                                             *)
(***************************************************************************)
\* links of the pull requests whose review list holds an APPROVED review
ApprovedLinks ==
    {r.html_url : r \in {x \in Pool :
        /\ x.pull_request
        /\ \E rv \in Range(ServerReviews(Last(x.repository_url), Last(x.url))) :
              rv.state = "APPROVED"}}

\* links rendered in the bodies of the batch and of the payloads posted
RenderedLinks ==
    UNION {{b.link : b \in Range(e.prs)} :
              e \in Range(status) \cup {posts[k].json : k \in 1..Len(posts)}}

\* C1: a pull request with an APPROVED review contributes no block to the
\* body of any digest entry that is built or posted.
C1_ApprovedNeverRendered == RenderedLinks \cap ApprovedLinks = {}

\* a run fetched an approved pull request of an outside contributor in a
\* registered repository, and delivered a digest
C1_Witness ==
    /\ pc = "done"
    /\ posts # << >>
    /\ \E k \in 1..Len(issues.recs) :
          /\ issues.recs[k].html_url \in ApprovedLinks
          /\ Last(issues.recs[k].repository_url) \in RepoIdSet
          /\ issues.recs[k].user.login
                \notin members_by_repo[Last(issues.recs[k].repository_url)]

\* the record is written by a member of its repository's team, or its
\* repository is not registered
IsExcluded(rec) ==
    \/ Last(rec.repository_url) \notin RepoIdSet
    \/ rec.user.login \in members_by_repo[Last(rec.repository_url)]

SurvivingLinks ==
    UNION {{c.link : c \in Range(filtered_issues[r])} : r \in RepoIdSet}

ExcludedStaysOut ==
    \A k \in 1..Len(issues.recs) :
        IsExcluded(issues.recs[k]) =>
            issues.recs[k].html_url \notin SurvivingLinks \cup RenderedLinks

ExcludedIsSkipped ==
    (pc = "filter" /\ IsExcluded(issues.recs[i])) =>
        /\ pc' \in {"filter", "build"}
        /\ filtered_issues' = filtered_issues
        /\ lookups' = lookups

\* C2: a fetched record written by a member of its repository's team, or of
\* a repository that is not registered, never enters a surviving list or a
\* digest, and the pass steps over it without a lookup and without ending
\* the run.
C2_ExcludedNeverSurvives == [] ExcludedStaysOut /\ [][ExcludedIsSkipped]_vars

\* a run fetched a member's record, a record of an unregistered repository
\* and a surviving record, and delivered a digest
C2_Witness ==
    /\ pc = "done"
    /\ posts # << >>
    /\ \E k \in 1..Len(issues.recs) :
          Last(issues.recs[k].repository_url) \notin RepoIdSet
    /\ \E k \in 1..Len(issues.recs) :
          /\ Last(issues.recs[k].repository_url) \in RepoIdSet
          /\ IsExcluded(issues.recs[k])

\* the registered repository an entry of the batch was built for
RepoOfEntry(e) == CHOOSE r \in RepoIdSet : name_by_repo[r] = e.repo

\* the blocks of the pull requests of a surviving list, in sorted order
SortedPrBlocks(repo_issues) ==
    LET prs == SelectSeq(SortedByAssignee(repo_issues), LAMBDA c : c.is_pr)
    IN  [k \in 1..Len(prs) |-> PrBlock(prs[k])]

\* the body is the longest prefix of the blocks that stays within the maximum
IsCappedPrefix(body, blocks) ==
    /\ TextLen(body) <= MSG_MAX_LENGTH
    /\ Len(body) <= Len(blocks)
    /\ body = SubSeq(blocks, 1, Len(body))
    /\ Len(body) < Len(blocks) =>
          TextLen(body) + blocks[Len(body) + 1].len > MSG_MAX_LENGTH

\* C3: the body format_by_repo returns is at most 40,000 characters long and
\* is the concatenation of whole blocks of a prefix of the pull requests in
\* sorted order, ending before the first block that would exceed the maximum.
C3_BodyIsCappedPrefix ==
    \A k \in 1..Len(status) :
        IsCappedPrefix(status[k].prs,
                       SortedPrBlocks(filtered_issues[RepoOfEntry(status[k])]))

\* a body was cut before a block that did not fit, and a later block that
\* would have fitted was discarded with it
C3_Witness ==
    \E k \in 1..Len(status) :
        LET body == status[k].prs
            blocks == SortedPrBlocks(filtered_issues[RepoOfEntry(status[k])])
        IN  /\ body # << >>
            /\ Len(body) + 2 <= Len(blocks)
            /\ TextLen(body) + blocks[Len(blocks)].len <= MSG_MAX_LENGTH

\* C4: when a request of the paginated retrieval fails, the run ends there:
\* no review lookup, no surviving list, no digest entry and no POST.
C4_FetchFailureAborts ==
    fetch_failed =>
        /\ pc = "exited"
        /\ lookups = 0
        /\ \A r \in RepoIdSet : filtered_issues[r] = << >>
        /\ status = << >>
        /\ posts = << >>

\* a request for a later page failed after records of an outside contributor
\* had been received
C4_Witness ==
    /\ fetch_failed
    /\ page > 1
    /\ \E k \in 1..Len(issues.recs) :
          /\ ~ IsExcluded(issues.recs[k])
          /\ issues.recs[k].html_url \notin ApprovedLinks

\* C5: every entry of the batch gets exactly one POST attempt, in batch
\* order, whatever the outcome of the attempts before it.
C5_EveryEntryPostedOnce ==
    /\ Len(posts) <= Len(status)
    /\ \A k \in 1..Len(posts) :
          /\ posts[k].json = status[k]
          /\ posts[k].url = status[k].webhook
    /\ pc = "deliver" => Len(posts) = j - 1 /\ j <= Len(status)
    /\ pc = "done" => Len(posts) = Len(status)

\* the attempt for the first of two entries raised, and the second entry
\* was attempted
C5_Witness ==
    /\ pc = "done"
    /\ Len(status) = 2
    /\ Len(posts) = 2
    /\ posts[1].outcome = "raised"

\* C6: a further page is requested only while the accumulated count is below
\* min(total_count, 900), and never when total_count is at most the page size.
C6_RequestsStopAtTotal ==
    pc = "paging" =>
        /\ total_count > per_page
        /\ IssueCount(issues) < Min(total_count, SafetyCeiling)

\* C7: once the batch is built it holds exactly one entry for each
\* registered repository with a surviving record and none for the others,
\* and only repositories with an entry are posted to.
C7_OneEntryPerReportingRepo ==
    pc \in {"deliver", "done"} =>
        /\ \A r \in RepoIdSet :
              Cardinality({k \in 1..Len(status) : status[k].repo = name_by_repo[r]})
                 = IF filtered_issues[r] # << >> THEN 1 ELSE 0
        /\ Len(status) = Cardinality({r \in RepoIdSet : filtered_issues[r] # << >>})
        /\ \A k \in 1..Len(posts) :
              \E r \in RepoIdSet : /\ filtered_issues[r] # << >>
                                   /\ posts[k].url = webhook_by_repo[r]

\* a run in which one repository had surviving records and the other had
\* none delivered exactly one digest
C7_Witness ==
    /\ pc = "done"
    /\ \E r \in RepoIdSet : filtered_issues[r] # << >>
    /\ \E r \in RepoIdSet : filtered_issues[r] = << >>
    /\ Len(posts) = 1
    /\ issues.recs # << >>

\* C8: a failed review lookup is not propagated: the run does not end in the
\* exception but goes on to classify and deliver.
C8_LookupFailureNotPropagated == pc # "crashed"

LoopMakesProgress ==
    pc = "paging" =>
        \/ pc' # "paging"
        \/ IssueCount(issues') > IssueCount(issues)

\* C9: get_issues terminates: every iteration of the pagination loop ends
\* the loop or strictly increases the accumulated count, and the loop is
\* left eventually.
C9_GetIssuesTerminates ==
    /\ [][LoopMakesProgress]_vars
    /\ <>(pc \notin {"start", "paging"})

\* the loop ended by reaching its bound, no page having been empty
C9_Witness ==
    /\ pc \in {"filter", "build"}
    /\ IssueCount(issues) >= SafetyCeiling

\* C10: the handler attempts the refresh of every registered repository,
\* whichever of them failed.
C10_EveryRepositoryAttempted ==
    h_pc # "loop" => attempts = [k \in 1..Len(team_repos) |-> team_repos[k].id]

====
